---- MODULE Spec2Model ----
(***************************************************************************)
(* A model of the markov-game agents (agent.py) and of the step loop that  *)
(* drives them (game.py).                                                  *)
(*                                                                         *)
(* Real numbers are fixed point.  A Q-value or reward is an integer number *)
(* of 1/Unit, a probability an integer number of 1/PiDen, the learning     *)
(* rate alpha an integer number of 1/AlphaOne.  Products are rounded down  *)
(* (\div) where the code multiplies floats.                                *)
(***************************************************************************)
EXTENDS Integers, Sequences, FiniteSets, TLC

VARIABLES
    objs,        \* Game.players: player number -> the agent added under it
    order,       \* the order in which Game.players holds its keys
    files,       \* the pickle files: pickle_name -> file record
    py3,         \* sys.version_info >= (3, 0)
    H,           \* Game.H, the number of steps of one run
    step,        \* Game.step
    state,       \* Game.state
    pc,          \* where the driver is: idle, inside Game.run, or crashed
    actions,     \* the local actions of Game.run
    sim,         \* the locals next_state and rewards of Game.run
    todo,        \* the players the update loop of Game.run has yet to visit
    log,         \* the calls Game.run made on the agents in the current step
    last,        \* the most recent call on an agent, with its outcome
    runs,        \* number of calls of Game.run so far
    nsteps,      \* number of passes of the loop of Game.run so far
    doneAt,      \* player number -> the tables its agent held at its last done()
    snap,        \* pickle_name -> the tables of the agent whose done() wrote it last
    updated,     \* player number -> the states its agent was updated for
    piArg        \* player number -> the pi its StationaryAgent was built with

vars == <<objs, order, files, py3, H, step, state, pc, actions, sim, todo, log,
          last, runs, nsteps, doneAt, snap, updated, piArg>>

----------------------------------------------------------------------------
(* Bounds of the model *)

\* calls of Game.run the driver makes
MaxRuns == 2
\* the largest Game.H a driver builds a game with
MaxH == 2
\* passes of the loop of Game.run the model follows, over all runs
MaxSteps == 2
\* resolution of Q-values and rewards: 1.0 is Unit
Unit == 10
\* resolution of probabilities: 1.0 is PiDen = 2 * PiHalf
PiHalf == 1
\* distinct values the model lets np.random.rand return for one table entry
NumDraws == 1

PiDen == 2 * PiHalf

(* Program constants *)

\* alpha=1.0, the default learning rate, in units of 1/AlphaOne
AlphaOne == 10000000
\* alpha *= 0.9999954
DecayNum == 9999954
\* game.gamma = GammaNum / GammaDen
GammaNum == 1
GammaDen == 2
\* game.numactions(no), game.numactions(1 - no)
numactions == 2
opp_numactions == 2

States == {"s0", "s1"}
StateSeq == <<"s0", "s1">>
Acts == 0 .. (numactions - 1)
OppActs == 0 .. (opp_numactions - 1)
Rewards == {Unit}
\* np.random.rand draws from [0, 1): draw k of the model, a vector
RandVecDraw(k) == [a \in Acts |-> IF (a + k) % 2 = 1 THEN Unit \div 2 ELSE 0]
\* draw k of the model, a matrix: the odd draws have a mixed maximin strategy,
\* the even ones a pure one
RandMatDraw(k) ==
    [a \in Acts |-> [o \in OppActs |->
        IF k % 2 = 1 THEN (IF a = o THEN Unit \div 2 ELSE 0)
        ELSE (IF a = 0 THEN Unit \div 2 ELSE (k \div 2) % Unit)]]
RandVec == {RandVecDraw(k) : k \in 1 .. NumDraws}
RandMat == {RandMatDraw(k) : k \in 1 .. NumDraws}

----------------------------------------------------------------------------
(* Arithmetic *)

RECURSIVE SumTo(_, _)
SumTo(f, n) == IF n < 0 THEN 0 ELSE f[n] + SumTo(f, n - 1)

Sum(f, n) == SumTo(f, n - 1)

MaxOf(S) == CHOOSE x \in S : \A y \in S : y <= x
MinOf(S) == CHOOSE x \in S : \A y \in S : x <= y

\* np.max(Q2)
npmax(v) == MaxOf({v[a] : a \in DOMAIN v})

\* np.argmax: the first index holding the maximum
argmax(v) == MinOf({a \in DOMAIN v : v[a] = npmax(v)})

\* alpha * x
AlphaMul(alpha, x) == (alpha * x) \div AlphaOne

\* gamma * x
GammaMul(x) == (GammaNum * x) \div GammaDen

\* alpha *= 0.9999954
Decay(alpha) == alpha - ((alpha * (AlphaOne - DecayNum)) \div AlphaOne)

----------------------------------------------------------------------------
(* strategy.Strategy: a distribution over numactions actions *)

NoPi == <<>>

Uniform(n) == [a \in 0 .. (n - 1) |-> PiDen \div n]

\* Strategy(n, pi=None)
Strategy(n, pi) == [pi |-> IF pi = NoPi THEN Uniform(n) ELSE pi]

\* Strategy.update(pi): replaces the whole distribution
StrategyUpdate(st, pi) == [st EXCEPT !.pi = pi]

\* Strategy.sample(): the indices it can return
StrategySample(st) ==
    LET supp == {a \in DOMAIN st.pi : st.pi[a] > 0}
    IN  IF supp = {} THEN DOMAIN st.pi ELSE supp

ValidPi(pi) ==
    /\ \A a \in DOMAIN pi : 0 <= pi[a] /\ pi[a] <= PiDen
    /\ Sum(pi, numactions) = PiDen

----------------------------------------------------------------------------
(* defaultdict *)

NoTable == <<>>

\* d[k] on a defaultdict: a missing key is inserted with the factory's value
Touch(d, k, fresh) ==
    IF k \in DOMAIN d THEN d
    ELSE [x \in (DOMAIN d) \cup {k} |-> IF x = k THEN fresh ELSE d[x]]

----------------------------------------------------------------------------
(* Agents *)

NoAgent == [kind |-> "none"]

\* Agent.__init__ and the fields the subclasses add
Agent(kind, no, train, Q, strategy) ==
    [kind |-> kind, no |-> no, train |-> train, alpha |-> AlphaOne,
     Q |-> Q, strategy |-> strategy]

\* Agent.pickle_name: '{}_{}.pickle'.format(self.name, self.no)
pickle_name(ag) == <<ag.kind, ag.no>>

\* StationaryAgent.__init__
StationaryAgent(no, pi) ==
    Agent("stationary", no, FALSE, NoTable, Strategy(numactions, pi))

\* RandomAgent.__init__
RandomAgent(no) == StationaryAgent(no, [a \in Acts |-> PiDen \div numactions])

\* jit_q_update: the new contents of Q1
jit_q_update(Q1, Q2, a, r, alpha) ==
    [Q1 EXCEPT ![a] = Q1[a] + AlphaMul(alpha, r + GammaMul(npmax(Q2)) - Q1[a])]

\* a Q-learning backup that writes the entry of the opponent's action
QAgent_update_by_o(ag, s, a, o, r, ns, d1, d2) ==
    LET Qa == Touch(ag.Q, s, d1)
        Qb == Touch(Qa, ns, d2)
        Qc == [Qb EXCEPT ![s] = jit_q_update(Qb[s], Qb[ns], o, r, ag.alpha)]
    IN  [ag EXCEPT !.Q = Qc, !.alpha = Decay(ag.alpha)]

\* QAgent.update
QAgent_update(ag, s, a, o, r, ns, d1, d2) ==
    LET Qa == Touch(ag.Q, s, d1)
        Qb == Touch(Qa, ns, d2)
        Qc == [Qb EXCEPT ![s] = jit_q_update(Qb[s], Qb[ns], a, r, ag.alpha)]
    IN  [ag EXCEPT !.Q = Qc, !.alpha = Decay(ag.alpha)]

\* an act whose greedy branch keeps only the entry of s
QAgent_act_forgetful(ag, s, d) ==
    {[ag |-> ag, ret |-> x, explored |-> TRUE] : x \in IF ag.train THEN Acts ELSE {}}
    \cup
    LET Qa == [k \in {s} |-> Touch(ag.Q, s, d)[s]]
    IN  {[ag |-> [ag EXCEPT !.Q = Qa], ret |-> argmax(Qa[s]), explored |-> FALSE]}

\* QAgent.act: the calls' possible outcomes (new agent, returned action)
QAgent_act(ag, s, d) ==
    {[ag |-> ag, ret |-> x, explored |-> TRUE] : x \in IF ag.train THEN Acts ELSE {}}
    \cup
    LET Qa == Touch(ag.Q, s, d)
    IN  {[ag |-> [ag EXCEPT !.Q = Qa], ret |-> argmax(Qa[s]), explored |-> FALSE]}

\* StationaryAgent.act
StationaryAgent_act(ag, s) ==
    {[ag |-> ag, ret |-> x, explored |-> FALSE] : x \in StrategySample(ag.strategy)}

\* jit_minimax_dot: np.dot(pi, Q[:, o]), in units of 1/(PiDen * Unit)
jit_minimax_dot(pi, Q, o) == Sum([a \in Acts |-> pi[a] * Q[a][o]], numactions)

\* jit_minimax_update: the new contents of Q
jit_minimax_update(Q, v, a, o, r, alpha) ==
    [Q EXCEPT ![a][o] = Q[a][o] + AlphaMul(alpha, r + GammaMul(v) - Q[a][o])]

\* the defaultdict accesses of MinimaxQAgent.val(s): self.strategy[s], self.Q[s]
val_touch(ag, s, d) ==
    [ag EXCEPT !.strategy = Touch(ag.strategy, s, Strategy(numactions, NoPi)),
               !.Q = Touch(ag.Q, s, d)]

\* MinimaxQAgent.val, on tables that hold s
val(ag, s) ==
    MinOf({jit_minimax_dot(ag.strategy[s].pi, ag.Q[s], o) : o \in OppActs}) \div PiDen

\* MinimaxQAgent.act
MinimaxQAgent_act(ag, s) ==
    {[ag |-> ag, ret |-> x, explored |-> TRUE] : x \in IF ag.train THEN Acts ELSE {}}
    \cup
    LET st == Touch(ag.strategy, s, Strategy(numactions, NoPi))
    IN  {[ag |-> [ag EXCEPT !.strategy = st], ret |-> x, explored |-> FALSE] :
            x \in StrategySample(st[s])}

\* the LP variables pi[a], each with lb=0.0, ub=1.0
LPBox == [Acts -> 0 .. PiDen]

\* an LP without the constraint c_pi
LPUnconstrained(pi) == \A a \in Acts : pi[a] \in 0 .. PiDen

\* the constraint c_pi: sum of pi[a] == 1
LPSimplex(pi) == Sum(pi, numactions) = PiDen

\* the largest v that the constraints c_o allow for pi
LPValue(pi, Qs) == MinOf({jit_minimax_dot(pi, Qs, o) : o \in OppActs})

\* the optimal solutions of the LP for the matrix Qs
LPOptimal(Qs) ==
    {pi \in LPBox : /\ LPSimplex(pi)
                    /\ \A p2 \in LPBox : LPSimplex(p2) => LPValue(p2, Qs) <= LPValue(pi, Qs)}

\* MinimaxQAgent.update_strategy: the solve returns an optimum, which replaces
\* strategy[s]; or the call raises, in the solve, before strategy[s] is looked
\* up, or in reading the solution, after the lookup has created strategy[s]
update_strategy(ag, s, solver) ==
    LET st == Touch(ag.strategy, s, Strategy(numactions, NoPi))
    IN  {[ag |-> [ag EXCEPT !.strategy = [st EXCEPT ![s] = StrategyUpdate(st[s], pi)]],
          raised |-> FALSE, caught |-> FALSE, solver |-> solver] : pi \in LPOptimal(ag.Q[s])}
        \cup
        {[ag |-> x, raised |-> TRUE, caught |-> FALSE, solver |-> solver] :
            x \in {ag, [ag EXCEPT !.strategy = st]}}

\* MinimaxQAgent.update, lines 187-193: the choice of the solver
update_solve(ag, s, python3) ==
    IF python3
    THEN update_strategy(ag, s, "pulp")
    ELSE {x \in update_strategy(ag, s, "gurobi") : ~x.raised}
         \cup {[x EXCEPT !.caught = TRUE] : x \in update_strategy(ag, s, "pulp")}

\* an update that solves the LP before it writes Q[s]
MinimaxQAgent_update_solve_first(ag, s, a, o, r, ns, d1, d2, python3) ==
    LET a1 == [ag EXCEPT !.Q = Touch(ag.Q, s, d1)]
        a2 == val_touch(a1, ns, d2)
        v  == val(a2, ns)
    IN  {[x EXCEPT !.ag = [x.ag EXCEPT
                              !.Q[s] = jit_minimax_update(a2.Q[s], v, a, o, r, a2.alpha),
                              !.alpha = Decay(a2.alpha)]] :
            x \in update_solve(a2, s, python3)}

\* an update that computes value(ns) after it has written Q[s] and re-solved
MinimaxQAgent_update_val_last(ag, s, a, o, r, ns, d1, d2, python3) ==
    LET a1 == [ag EXCEPT !.Q = Touch(ag.Q, s, d1)]
        a2 == val_touch(a1, ns, d2)
        v0 == val(a2, ns)
        w  == [a2 EXCEPT !.Q[s] = jit_minimax_update(a2.Q[s], v0, a, o, r, a2.alpha)]
    IN  UNION {
          LET v  == IF x.raised THEN v0 ELSE val(x.ag, ns)
              a3 == [a2 EXCEPT !.Q[s] = jit_minimax_update(a2.Q[s], v, a, o, r, a2.alpha)]
              a4 == [a3 EXCEPT !.alpha = Decay(a3.alpha)]
          IN  update_solve(a4, s, python3) : x \in update_solve(w, s, python3)}

\* MinimaxQAgent.update: its possible outcomes
MinimaxQAgent_update(ag, s, a, o, r, ns, d1, d2, python3) ==
    LET a1 == [ag EXCEPT !.Q = Touch(ag.Q, s, d1)]
        a2 == val_touch(a1, ns, d2)
        v  == val(a2, ns)
        a3 == [a2 EXCEPT !.Q[s] = jit_minimax_update(a2.Q[s], v, a, o, r, a2.alpha)]
        a4 == [a3 EXCEPT !.alpha = Decay(a3.alpha)]
    IN  update_solve(a4, s, python3)

----------------------------------------------------------------------------
(* pickle *)

NoFile == [exists |-> FALSE]

\* pickle.dump of a dict: its items, key by key
dump_dict(d) ==
    LET keys == SelectSeq(StateSeq, LAMBDA k : k \in DOMAIN d)
    IN  [i \in 1 .. Len(keys) |-> <<keys[i], d[keys[i]]>>]

\* pickle.load of a dict: the mapping its items spell out
load_dict(items) ==
    [k \in {items[i][1] : i \in DOMAIN items} |->
        items[CHOOSE i \in DOMAIN items : items[i][1] = k][2]]

\* QAgent.done
QAgent_done(ag, fs) ==
    IF ag.train
    THEN [fs EXCEPT ![pickle_name(ag)] = [exists |-> TRUE, data |-> dump_dict(ag.Q)]]
    ELSE fs

\* MinimaxQAgent.done
MinimaxQAgent_done(ag, fs) ==
    IF ag.train
    THEN [fs EXCEPT ![pickle_name(ag)] =
             [exists |-> TRUE, data |-> <<dump_dict(ag.Q), dump_dict(ag.strategy)>>]]
    ELSE fs

\* StationaryAgent.done
StationaryAgent_done(ag, fs) == fs

\* QAgent.__init__: the agent built, when open() finds the file it needs
QAgent(no, train, fs) ==
    IF train
    THEN Agent("q", no, TRUE, NoTable, NoTable)
    ELSE Agent("q", no, FALSE, load_dict(fs[<<"q", no>>].data), NoTable)

\* a constructor that loads the Q-table and not the strategy table
MinimaxQAgent_Q_only(no, train, fs) ==
    IF train
    THEN Agent("minimax", no, TRUE, NoTable, NoTable)
    ELSE Agent("minimax", no, FALSE, load_dict(fs[<<"minimax", no>>].data[1]), NoTable)

\* MinimaxQAgent.__init__: the agent built, when open() finds the file it needs
MinimaxQAgent(no, train, fs) ==
    IF train
    THEN Agent("minimax", no, TRUE, NoTable, NoTable)
    ELSE Agent("minimax", no, FALSE, load_dict(fs[<<"minimax", no>>].data[1]),
               load_dict(fs[<<"minimax", no>>].data[2]))

----------------------------------------------------------------------------
(* Dispatch on the agent's class *)

NoDraw == <<>>

\* the values the defaultdict factory of ag.Q can produce for key k
Draws(ag, k) ==
    IF k \in DOMAIN ag.Q \/ ag.kind = "stationary" THEN {NoDraw}
    ELSE IF ag.kind = "q" THEN RandVec ELSE RandMat

act(ag, s) ==
    CASE ag.kind = "q" -> UNION {QAgent_act(ag, s, d) : d \in Draws(ag, s)}
      [] ag.kind = "minimax" -> MinimaxQAgent_act(ag, s)
      [] OTHER -> StationaryAgent_act(ag, s)

update(ag, s, a, o, r, ns, d1, d2, python3) ==
    CASE ag.kind = "q" ->
            {[ag |-> QAgent_update(ag, s, a, o, r, ns, d1, d2),
              raised |-> FALSE, caught |-> FALSE, solver |-> "none"]}
      [] ag.kind = "minimax" -> MinimaxQAgent_update(ag, s, a, o, r, ns, d1, d2, python3)
      [] OTHER -> {[ag |-> ag, raised |-> FALSE, caught |-> FALSE, solver |-> "none"]}

done(ag, fs) ==
    CASE ag.kind = "q" -> QAgent_done(ag, fs)
      [] ag.kind = "minimax" -> MinimaxQAgent_done(ag, fs)
      [] OTHER -> StationaryAgent_done(ag, fs)

----------------------------------------------------------------------------
(* The program: a game with two players, run by a driver *)

Nos == 0 .. 1
FileNames == {"q", "minimax"} \X Nos

Tables(ag) == [Q |-> ag.Q, strategy |-> ag.strategy]
NotDone == [called |-> FALSE]

Call(op, i, s, a, o, r, ns, d1, d2, ret, raised, caught, solver) ==
    [op |-> op, no |-> i, s |-> s, a |-> a, o |-> o, r |-> r, ns |-> ns,
     d1 |-> d1, d2 |-> d2, ret |-> ret, raised |-> raised, caught |-> caught,
     solver |-> solver]

NoCall == Call("init", 0, "s0", 0, 0, 0, "s0", NoDraw, NoDraw, 0, FALSE, FALSE, "none")

\* the explicit distributions a caller hands to StationaryAgent
PiInputs == [Acts -> 0 .. PiDen]

\* what a driver builds a player from: the class, and the pi of a StationaryAgent
Learner(cls) == [cls |-> cls, pi |-> NoPi]
Baseline == [cls |-> "random", pi |-> NoPi]
Fixed(pi) == [cls |-> "stationary", pi |-> pi]

\* the agent built for player no
Build(no, c) ==
    CASE c.cls = "q" -> QAgent(no, TRUE, <<>>)
      [] c.cls = "minimax" -> MinimaxQAgent(no, TRUE, <<>>)
      [] c.cls = "random" -> RandomAgent(no)
      [] OTHER -> StationaryAgent(no, c.pi)

\* the two agents a driver adds to the game: a learner against the random
\* baseline, on either side; two learners; a fixed strategy against the baseline
Setups ==
    {<<Learner(cls), Baseline>> : cls \in {"q", "minimax"}}
    \cup {<<Baseline, Learner("q")>>, <<Learner("q"), Learner("q")>>}
    \cup {<<Fixed(pi), Baseline>> : pi \in PiInputs}

\* Game.__init__, a state set by the concrete game, and two calls of add_player
Init ==
    /\ \E setup \in Setups :
          /\ objs = [no \in Nos |-> Build(no, setup[no + 1])]
          /\ piArg = [no \in Nos |->
                        IF setup[no + 1].cls = "random"
                        THEN [a \in Acts |-> PiDen \div numactions]
                        ELSE setup[no + 1].pi]
    /\ order \in {<<0, 1>>, <<1, 0>>}
    /\ files = [f \in FileNames |-> NoFile]
    /\ py3 \in IF \E no \in Nos : objs[no].kind = "minimax" THEN BOOLEAN ELSE {TRUE}
    /\ H \in 1 .. MaxH
    /\ step = 0
    /\ state = "s0"
    /\ pc = "idle"
    /\ actions = <<>>
    /\ sim = <<>>
    /\ todo = <<>>
    /\ log = <<>>
    /\ last = NoCall
    /\ runs = 0
    /\ nsteps = 0
    /\ doneAt = [no \in Nos |-> NotDone]
    /\ snap = [f \in FileNames |-> NotDone]
    /\ updated = [no \in Nos |-> {}]

\* Game.run up to the loop: the two assertions hold
RunStart ==
    /\ pc = "idle" /\ runs < MaxRuns
    /\ Len(order) = 2 /\ state \in States
    /\ H > 0
    /\ runs' = runs + 1
    /\ step' = 0
    /\ pc' = "act0"
    /\ log' = <<>>
    /\ UNCHANGED <<objs, order, files, py3, piArg, H, state, actions, sim, todo, last, nsteps,
                   doneAt, snap, updated>>

\* self.players[no].act(self.state), first for player 0, then for player 1
RunAct(no) ==
    /\ pc = (IF no = 0 THEN "act0" ELSE "act1")
    /\ no = 0 => nsteps < MaxSteps
    /\ nsteps' = (IF no = 0 THEN nsteps + 1 ELSE nsteps)
    /\ \E x \in act(objs[no], state) :
         /\ objs' = [objs EXCEPT ![no] = x.ag]
         /\ actions' = (IF no = 0 THEN <<x.ret>> ELSE Append(actions, x.ret))
         /\ last' = [NoCall EXCEPT !.op = "act", !.no = no, !.s = state, !.ret = x.ret]
         /\ log' = Append(log, last')
    /\ pc' = (IF no = 0 THEN "act1" ELSE "simulate")
    /\ UNCHANGED <<order, files, py3, piArg, H, step, state, sim, todo, runs, doneAt, snap, updated>>

\* next_state, rewards = self.simulate(actions): the abstract method
RunSimulate ==
    /\ pc = "simulate"
    /\ \E ns \in States, rw \in [Nos -> Rewards] :
         sim' = [next_state |-> ns, rewards |-> rw]
    /\ todo' = order
    /\ pc' = "update"
    /\ UNCHANGED <<objs, order, files, py3, piArg, H, step, state, actions, log, last, runs,
                   nsteps, doneAt, snap, updated>>

\* arguments that hand the player the opponent's action as its own
update_args_swapped(j) ==
    [s |-> state, a |-> actions[(1 - j) + 1], o |-> actions[j + 1],
     r |-> sim.rewards[j], ns |-> sim.next_state]

\* the arguments of player.update(self.state, actions[j], actions[1 - j],
\* rewards[j], next_state)
update_args(j) ==
    [s |-> state, a |-> actions[j + 1], o |-> actions[(1 - j) + 1],
     r |-> sim.rewards[j], ns |-> sim.next_state]

\* one pass of the loop over self.players.items(), for a player that trains
RunUpdate ==
    /\ pc = "update" /\ todo # <<>>
    /\ LET j == Head(todo)
           c == update_args(j)
       IN  /\ objs[j].train
           /\ \E d1 \in Draws(objs[j], c.s) :
              \E d2 \in (IF c.ns = c.s THEN {NoDraw} ELSE Draws(objs[j], c.ns)) :
              \E x \in update(objs[j], c.s, c.a, c.o, c.r, c.ns, d1, d2, py3) :
                /\ objs' = [objs EXCEPT ![j] = x.ag]
                /\ last' = Call("update", j, c.s, c.a, c.o, c.r, c.ns,
                                d1, d2, 0, x.raised, x.caught, x.solver)
                /\ log' = Append(log, last')
                /\ pc' = (IF x.raised THEN "crashed" ELSE "update")
           /\ updated' = [updated EXCEPT ![j] = @ \cup {c.s}]
    /\ todo' = Tail(todo)
    /\ UNCHANGED <<order, files, py3, piArg, H, step, state, actions, sim, runs, nsteps, doneAt, snap>>

\* one pass of the loop over self.players.items(), for a player that does not train
RunSkip ==
    /\ pc = "update" /\ todo # <<>>
    /\ ~objs[Head(todo)].train
    /\ todo' = Tail(todo)
    /\ UNCHANGED <<objs, order, files, py3, piArg, H, step, state, pc, actions, sim, log, last,
                   runs, nsteps, doneAt, snap, updated>>

\* self.state = next_state, and the loop goes on or ends; the locals of one
\* pass are dead after it
RunAdvance ==
    /\ pc = "update" /\ todo = <<>>
    /\ state' = sim.next_state
    /\ IF step + 1 < H
       THEN step' = step + 1 /\ pc' = "act0"
       ELSE step' = step /\ pc' = "idle"
    /\ actions' = <<>>
    /\ sim' = <<>>
    /\ log' = <<>>
    /\ last' = NoCall
    /\ UNCHANGED <<objs, order, files, py3, piArg, H, todo, runs, nsteps, doneAt, snap, updated>>

\* the driver calls done() on a player
Done(no) ==
    /\ pc = "idle"
    /\ files' = done(objs[no], files)
    /\ doneAt' = [doneAt EXCEPT ![no] = [called |-> TRUE, tables |-> Tables(objs[no])]]
    /\ snap' = [f \in FileNames |->
                  IF objs[no].train /\ f = <<objs[no].kind, no>>
                  THEN doneAt'[no] ELSE snap[f]]
    /\ UNCHANGED <<objs, order, py3, piArg, H, step, state, pc, actions, sim, todo, log, last, runs,
                   nsteps, updated>>

\* the driver builds QAgent(no, game, train=False) or MinimaxQAgent(no, game,
\* train=False) and adds it as player no; open() raises when the file is missing
Load(kind, no) ==
    /\ pc = "idle"
    /\ IF files[<<kind, no>>].exists
       THEN /\ objs' = [objs EXCEPT ![no] = IF kind = "q" THEN QAgent(no, FALSE, files)
                                            ELSE MinimaxQAgent(no, FALSE, files)]
            /\ doneAt' = [doneAt EXCEPT ![no] = NotDone]
            /\ updated' = [updated EXCEPT ![no] = {}]
            /\ pc' = pc
       ELSE /\ pc' = "crashed"
            /\ UNCHANGED <<objs, doneAt, updated>>
    /\ UNCHANGED <<order, files, py3, piArg, H, step, state, actions, sim, todo, log, last, runs, nsteps, snap>>

Next ==
    \/ RunStart
    \/ \E no \in Nos : RunAct(no)
    \/ RunSimulate
    \/ RunUpdate
    \/ RunSkip
    \/ RunAdvance
    \/ \E no \in Nos : Done(no)
    \/ \E kind \in {"q", "minimax"}, no \in Nos : Load(kind, no)

Spec == Init /\ [][Next]_vars

----------------------------------------------------------------------------
(* Properties *)

\* the step just taken is a call of update on player j, made by Game.run
UpdateStep(j) ==
    /\ pc = "update" /\ Len(log') = Len(log) + 1
    /\ last'.op = "update" /\ last'.no = j

\* the step just taken is a call of act on player j, made by Game.run
ActStep(j) ==
    /\ pc \in {"act0", "act1"} /\ Len(log') = Len(log) + 1
    /\ last'.op = "act" /\ last'.no = j

\* the players Game.run has called update on in the current step
Updatees == {log[k].no : k \in 3 .. Len(log)}
Trainers == {no \in Nos : objs[no].train}

\* pi is a maximin mixed strategy of the matrix game Qs: a distribution whose
\* worst case over the opponent's actions no other distribution beats
IsMaximin(pi, Qs) ==
    LET worst(p) == MinOf({Sum([a \in Acts |-> p[a] * Qs[a][o]], numactions) : o \in OppActs})
    IN  /\ ValidPi(pi)
        /\ \A p2 \in [Acts -> 0 .. PiDen] : ValidPi(p2) => worst(p2) <= worst(pi)

StepShape ==
    /\ pc \in {"idle", "act0"} => log = <<>>
    /\ pc = "act1" => Len(log) = 1
    /\ pc = "simulate" => Len(log) = 2
    /\ pc = "update" => Len(log) >= 2
    /\ Len(log) >= 1 =>
          /\ log[1].op = "act" /\ log[1].no = 0
          /\ log[1].s = state /\ actions[1] = log[1].ret
    /\ Len(log) >= 2 =>
          /\ log[2].op = "act" /\ log[2].no = 1
          /\ log[2].s = state /\ actions[2] = log[2].ret
    /\ \A k \in 3 .. Len(log) :
          /\ log[k].op = "update" /\ objs[log[k].no].train
          /\ log[k].s = state
          /\ log[k].a = actions[log[k].no + 1]
          /\ log[k].o = actions[(1 - log[k].no) + 1]
          /\ log[k].r = sim.rewards[log[k].no]
          /\ log[k].ns = sim.next_state
          /\ \A k2 \in 3 .. Len(log) : k2 # k => log[k2].no # log[k].no
    /\ (pc = "update" /\ todo = <<>>) => Updatees = Trainers

\* C1: in every step of Game.run both act calls are made on the same current
\* state before simulate; update is then called with the pre-step state, the
\* joint action, the player's reward and next_state for exactly the players
\* that train; and Game.state becomes next_state only after all those calls,
\* before the next step's act calls.
C1_RunStepOrder ==
    [][/\ StepShape'
       /\ state' # state =>
            /\ pc = "update" /\ todo = <<>> /\ Updatees = Trainers
            /\ state' = sim.next_state
            /\ pc' \in {"act0", "idle"} /\ log' = <<>>]_vars

C1_Witness ==
    /\ pc = "update" /\ todo = <<>> /\ step = 1
    /\ Len(log) = 4 /\ log[3].no = 1 /\ log[4].no = 0
    /\ sim.next_state # state

\* C2 (as claimed): an update of a MinimaxQAgent whose LP solve fails leaves
\* neither Q[s] nor alpha changed.
C2_NoPartialUpdate ==
    [][\A j \in Nos :
         (UpdateStep(j) /\ objs[j].kind = "minimax" /\ last'.raised) =>
            /\ objs'[j].alpha = objs[j].alpha
            /\ last'.s \in DOMAIN objs[j].Q => objs'[j].Q[last'.s] = objs[j].Q[last'.s]]_vars

\* C3 (as claimed): a failure of the LP solve during update always ends the
\* run; it is never caught inside update and followed by a solve with another
\* backend.
C3_SolverFailurePropagates ==
    (last.op = "update" /\ (last.raised \/ last.caught)) =>
        (pc = "crashed" /\ ~last.caught)

\* C4: for a training MinimaxQAgent whose updates all completed, strategy[s] of
\* every state s it was updated for is a maximin solution of the current Q[s].
C4_StrategyMatchesQ ==
    \A no \in Nos :
        (objs[no].kind = "minimax" /\ objs[no].train
           /\ ~(last.op = "update" /\ last.no = no /\ last.raised)) =>
            \A s \in updated[no] :
                /\ s \in DOMAIN objs[no].strategy /\ s \in DOMAIN objs[no].Q
                /\ IsMaximin(objs[no].strategy[s].pi, objs[no].Q[s])

C4_Witness ==
    /\ objs[0].kind = "minimax" /\ updated[0] = States
    /\ last.op = "update" /\ ~last.raised /\ last.ns # last.s
    /\ objs[0].Q[last.ns] # RandMatDraw(1)
    /\ objs[0].strategy[last.ns].pi # objs[0].strategy[last.s].pi

\* C5 (as claimed): act(s) of a QAgent leaves the keys and the values of its
\* Q mapping unchanged.
C5_ActLeavesQ ==
    [][\A j \in Nos : (ActStep(j) /\ objs[j].kind = "q") => objs'[j].Q = objs[j].Q]_vars

\* C5 (amended): act(s) of a QAgent, training or not, changes no Q-value of a
\* state the mapping holds and removes no key; it leaves the mapping unchanged
\* when it holds s, and adds at most the key s, with fresh values, otherwise.
C5_ActKeepsStoredQ ==
    [][\A j \in Nos :
         (ActStep(j) /\ objs[j].kind = "q") =>
            /\ \A k \in DOMAIN objs[j].Q :
                  k \in DOMAIN objs'[j].Q /\ objs'[j].Q[k] = objs[j].Q[k]
            /\ DOMAIN objs'[j].Q \subseteq (DOMAIN objs[j].Q) \cup {last'.s}
            /\ last'.s \in DOMAIN objs[j].Q => objs'[j].Q = objs[j].Q
            /\ (last'.s \notin DOMAIN objs[j].Q /\ last'.s \in DOMAIN objs'[j].Q) =>
                  objs'[j].Q[last'.s] \in RandVec
            /\ objs'[j].alpha = objs[j].alpha]_vars

C5_Witness ==
    /\ last.op = "act" /\ objs[last.no].kind = "q" /\ ~objs[last.no].train
    /\ snap[<<"q", last.no>>].called
    /\ last.s \notin DOMAIN snap[<<"q", last.no>>].tables.Q
    /\ last.s \in DOMAIN objs[last.no].Q
    /\ last.ret = argmax(objs[last.no].Q[last.s])

\* C6: a non-training QAgent or MinimaxQAgent is built with exactly the tables
\* (Q, and Q with strategy) that the training agent of its class and player
\* number held at its last done(); done() of a non-training agent leaves every
\* file as it is.
C6_RoundTrip ==
    [][pc = "idle" =>
         \A no \in Nos :
            /\ objs'[no] # objs[no] =>
                  /\ ~objs'[no].train
                  /\ snap[<<objs'[no].kind, no>>].called
                  /\ Tables(objs'[no]) = snap[<<objs'[no].kind, no>>].tables
            /\ (doneAt'[no] # doneAt[no] /\ doneAt'[no].called /\ ~objs[no].train) =>
                  files' = files]_vars

C6_Witness ==
    /\ pc = "idle" /\ objs[0].kind = "minimax" /\ ~objs[0].train
    /\ DOMAIN objs[0].Q = States /\ DOMAIN objs[0].strategy = States
    /\ objs[0].strategy["s0"] # Strategy(numactions, NoPi)
    /\ doneAt[0].called

C8_QUpdateIgnoresOpponent ==
    [][\A j \in Nos :
         (UpdateStep(j) /\ objs[j].kind = "q") =>
            LET c == last'
                pre == objs[j]
                post == objs'[j]
                Qs0 == IF c.s \in DOMAIN pre.Q THEN pre.Q[c.s] ELSE c.d1
                Qns0 == IF c.ns = c.s THEN Qs0
                        ELSE IF c.ns \in DOMAIN pre.Q THEN pre.Q[c.ns] ELSE c.d2
            IN  /\ \A o2 \in OppActs :
                      QAgent_update(pre, c.s, c.a, o2, c.r, c.ns, c.d1, c.d2) = post
                /\ \A k \in DOMAIN pre.Q, a2 \in Acts :
                      (k # c.s \/ a2 # c.a) => post.Q[k][a2] = pre.Q[k][a2]
                /\ post.Q[c.s][c.a] =
                      Qs0[c.a] + AlphaMul(pre.alpha, c.r + GammaMul(npmax(Qns0)) - Qs0[c.a])
                /\ post.alpha = Decay(pre.alpha)]_vars

C8_Witness ==
    /\ last.op = "update" /\ objs[last.no].kind = "q" /\ last.o # last.a
    /\ objs[last.no].alpha < Decay(AlphaOne)
    /\ last.ns = last.s

\* C9 (as claimed): once done() was called on an agent, its tables stay what
\* they were at that call.
C9_DoneIsTerminal ==
    \A no \in Nos : doneAt[no].called => Tables(objs[no]) = doneAt[no].tables

\* C10: one MinimaxQAgent.update computes value(ns) from the Q and strategy
\* stored before its write (also when ns = s), writes Q[s][a,o] with the alpha
\* from before the decay, decays alpha once, and re-solves strategy[s] last,
\* against the written Q[s]; no other Q entry and no other strategy changes.
C10_MinimaxUpdateOrder ==
    [][\A j \in Nos :
         (UpdateStep(j) /\ objs[j].kind = "minimax") =>
            LET c == last'
                pre == objs[j]
                post == objs'[j]
                Qs0 == IF c.s \in DOMAIN pre.Q THEN pre.Q[c.s] ELSE c.d1
                Qns0 == IF c.ns = c.s THEN Qs0
                        ELSE IF c.ns \in DOMAIN pre.Q THEN pre.Q[c.ns] ELSE c.d2
                pi0 == IF c.ns \in DOMAIN pre.strategy THEN pre.strategy[c.ns].pi
                       ELSE Uniform(numactions)
                v0 == MinOf({Sum([a \in Acts |-> pi0[a] * Qns0[a][o]], numactions) :
                             o \in OppActs}) \div PiDen
            IN  /\ post.Q[c.s][c.a][c.o] =
                      Qs0[c.a][c.o]
                      + AlphaMul(pre.alpha, c.r + GammaMul(v0) - Qs0[c.a][c.o])
                /\ post.alpha = Decay(pre.alpha)
                /\ ~c.raised => IsMaximin(post.strategy[c.s].pi, post.Q[c.s])
                /\ \A a2 \in Acts, o2 \in OppActs :
                      (a2 # c.a \/ o2 # c.o) => post.Q[c.s][a2][o2] = Qs0[a2][o2]
                /\ \A k \in (DOMAIN pre.Q) \ {c.s} : post.Q[k] = pre.Q[k]
                /\ \A k \in (DOMAIN pre.strategy) \ {c.s} :
                      post.strategy[k] = pre.strategy[k]]_vars

C10_Witness ==
    /\ last.op = "update" /\ objs[last.no].kind = "minimax" /\ ~last.raised
    /\ last.ns = last.s
    /\ objs[last.no].alpha < Decay(AlphaOne)
    /\ objs[last.no].strategy[last.s].pi # Uniform(numactions)

====
